---------------------------- MODULE Spec2Model ----------------------------
(***************************************************************************)
(* A model of lambda_function.py: the per-event forecasting pipeline       *)
(* (make_event_forecasts and the Forecast class) and the Lambda entry      *)
(* point (lambda_handler) with its S3 side effects.                        *)
(*                                                                         *)
(* Tables (pandas data frames) are sequences of records, one record per    *)
(* row, in row order.  Timestamps are integers counting time units, with   *)
(* UnitsPerDay units in a day.  A quotient of the ratio feature is kept as *)
(* the exact fraction [num, den], so that a zero denominator is visible.   *)
(***************************************************************************)
EXTENDS Integers, Sequences, FiniteSets, TLC

VARIABLES
    order_data,         \* module-level order table (lines 40-43)
    event_data,         \* module-level event table (line 46)
    bucket,             \* objects of the bucket FORECAST_IMG_BUCKET_NAME
    csv,                \* the stored object BUCKET_NAME/forecast.csv, if any
    pc,                 \* position of the running invocation
    exc,                \* the exception raised by the running invocation
    run,                \* number of invocations of lambda_handler so far
    ret,                \* value returned by the current invocation, if any
    s3_calls,           \* S3 write calls made by the current invocation, in order
    list_of_event_ids,  \* local of make_event_forecasts (line 144)
    it,                 \* position of the for loop in list_of_event_ids (0: none)
    data_for_csv,       \* local accumulator of make_event_forecasts (no row until bound)
    self,               \* the Forecast object of the current iteration, if any
    forecast_data,      \* the forecast of the current iteration
    days_to_event,      \* local of get_forecast (line 117), if any
    nextKey             \* source of uuid4 values

vars == <<order_data, event_data, bucket, csv, pc, exc, run, ret, s3_calls,
          list_of_event_ids, it, data_for_csv, self, forecast_data,
          days_to_event, nextKey>>

---------------------------------------------------------------------------
(* Program constants *)

THRESHOLD_ORDERS == 50
MAX_CAP == 1

(* Bounds of the model *)

MaxGross == 1       \* largest gross amount of an order row
MaxExtraOrders == 0 \* order rows of a block beyond THRESHOLD_ORDERS
MaxRuns == 2        \* invocations of lambda_handler
UnitsPerDay == 2    \* time units in a day

\* An unbound self, days_to_event or ret and a missing forecast.csv are the
\* empty sequence, a bound one the sequence of its one value.  A table that
\* is not bound yet is the table of no row, and `it` is 0 outside the loop.
None == <<>>
Some(v) == <<v>>
NoExc == "no exception"

---------------------------------------------------------------------------
(* The loaded tables.  The order table is a concatenation of blocks: a     *)
(* block is n consecutive rows of one event with one gross amount, created *)
(* one time unit apart from ds on; two blocks may be of the same event.    *)

EventOrder == <<1, 2>>
EventIds == {EventOrder[k] : k \in DOMAIN EventOrder}
BlockSizes == (THRESHOLD_ORDERS - 1)..(THRESHOLD_ORDERS + MaxExtraOrders)
GrossValues == -1..MaxGross
BlockDates == {0, 60}
MaxGrossValues == {-1, 0, THRESHOLD_ORDERS}
StartDates == {48, 50, 52}

OrderRow(e, t, g) == [event_id |-> e, ds |-> t, total_gross |-> g]

BlockRows(b) == [j \in 1..b.n |-> OrderRow(b.event_id, b.ds + (j - 1), b.total_gross)]

RECURSIVE OrderTable(_)
OrderTable(bs) ==
    IF bs = <<>> THEN <<>> ELSE BlockRows(Head(bs)) \o OrderTable(Tail(bs))

EventRow(e, s, m) ==
    [event_id |-> e, name |-> <<"event", e>>, start_date |-> s, max_total_gross |-> m]

\* One record per event of `present`, in the order of the event ids.
EventTable(present, s, m) ==
    SelectSeq([k \in DOMAIN EventOrder |-> EventRow(EventOrder[k], s[EventOrder[k]], m[EventOrder[k]])],
              LAMBDA r : r.event_id \in present)

\* The order tables of at most two blocks.
BlockSeqs(S) == UNION {[1..m -> S] : m \in 0..2}

\* Inputs that vary the gross amounts and the events' max_total_gross.
GrossBlocks == [event_id : EventIds, n : BlockSizes, total_gross : GrossValues, ds : {0}]

\* Inputs that vary the order dates, the start dates and the event records.
DateBlocks == [event_id : EventIds, n : BlockSizes, total_gross : {1}, ds : BlockDates]

LoadedTables(od, ed) ==
    \/ \E bs \in BlockSeqs(GrossBlocks), m \in [EventIds -> MaxGrossValues] :
          /\ od = OrderTable(bs)
          /\ ed = EventTable(EventIds, [e \in EventIds |-> 2 * THRESHOLD_ORDERS], m)
    \/ \E bs \in BlockSeqs(DateBlocks), present \in SUBSET EventIds,
          s \in StartDates :
          /\ od = OrderTable(bs)
          /\ ed = EventTable(present, [e \in EventIds |-> s],
                             [e \in EventIds |-> 2 * THRESHOLD_ORDERS])

\* Inputs of the invocations of lambda_handler: per event no order row or
\* one block of rows, and no event record or one of three.
EventProfiles ==
    {[start_date |-> 0, max_total_gross |-> THRESHOLD_ORDERS],
     [start_date |-> 2 * THRESHOLD_ORDERS, max_total_gross |-> THRESHOLD_ORDERS],
     [start_date |-> 2 * THRESHOLD_ORDERS, max_total_gross |-> 0]}

InvocationTables(od, ed) ==
    \E n \in [EventIds -> {0} \cup BlockSizes], present \in SUBSET EventIds,
       pr \in [EventIds -> EventProfiles] :
          /\ od = OrderTable([k \in DOMAIN EventOrder |->
                                 [event_id |-> EventOrder[k], n |-> n[EventOrder[k]],
                                  total_gross |-> 1, ds |-> 0]])
          /\ ed = EventTable(present, [e \in EventIds |-> pr[e].start_date],
                             [e \in EventIds |-> pr[e].max_total_gross])

---------------------------------------------------------------------------
(* Data frame operations *)

Range(s) == {s[k] : k \in DOMAIN s}

\* Series.unique(): the distinct values in order of first appearance.
unique(s) ==
    LET first == SelectSeq([k \in DOMAIN s |-> k],
                           LAMBDA k : \A j \in 1..(k - 1) : s[j] # s[k])
    IN  [m \in DOMAIN first |-> s[first[m]]]

Column(df, c) == [k \in DOMAIN df |-> df[k][c]]

\* order_data[order_data.event_id == event_id].copy()
FilterByEvent(df, e) == SelectSeq(df, LAMBDA r : r.event_id = e)

\* Series.cumsum()
\* (the running sums of s[lo..hi], by halves)
RECURSIVE cumsumOf(_, _, _)
cumsumOf(s, lo, hi) ==
    IF lo > hi THEN <<>>
    ELSE IF lo = hi THEN <<s[lo]>>
    ELSE LET mid == (lo + hi) \div 2
             left == cumsumOf(s, lo, mid)
             right == cumsumOf(s, mid + 1, hi)
         IN  left \o [k \in DOMAIN right |-> left[Len(left)] + right[k]]

cumsum(s) == cumsumOf(s, 1, Len(s))

\* The rows of event_data with event_data["event_id"] == event_id.
EventRecords(ed, e) == SelectSeq(ed, LAMBDA r : r.event_id = e)

---------------------------------------------------------------------------
(* Quotients: num / den as pandas computes it, inf and NaN included *)

Quot(a, b) == [num |-> a, den |-> b]

IsNaN(q) == q.den = 0 /\ q.num = 0
IsInf(q) == q.den = 0 /\ q.num # 0
IsPosInf(q) == q.den = 0 /\ q.num > 0
IsNegInf(q) == q.den = 0 /\ q.num < 0

Leq(a, b) ==
    IF IsNaN(a) \/ IsNaN(b) THEN FALSE
    ELSE IF IsNegInf(a) \/ IsPosInf(b) THEN TRUE
    ELSE IF IsPosInf(a) \/ IsNegInf(b) THEN FALSE
    ELSE IF a.den * b.den > 0 THEN a.num * b.den <= b.num * a.den
         ELSE a.num * b.den >= b.num * a.den


\* df[c] = vals
SetColumn(df, c, vals) == [k \in DOMAIN df |-> (c :> vals[k]) @@ df[k]]

RECURSIVE MinOf(_, _, _)
MinOf(s, lo, hi) ==
    IF lo = hi THEN s[lo]
    ELSE LET mid == (lo + hi) \div 2
             a == MinOf(s, lo, mid)
             b == MinOf(s, mid + 1, hi)
         IN  IF a <= b THEN a ELSE b

RECURSIVE MaxOf(_, _, _)
MaxOf(s, lo, hi) ==
    IF lo = hi THEN s[lo]
    ELSE LET mid == (lo + hi) \div 2
             a == MaxOf(s, lo, mid)
             b == MaxOf(s, mid + 1, hi)
         IN  IF a >= b THEN a ELSE b

\* The distinct values of a non-empty integer series, ascending.
SortedUnique(s) ==
    LET S == Range(s)
        lo == MinOf(s, 1, Len(s))
        hi == MaxOf(s, 1, Len(s))
    IN  SelectSeq([k \in 1..(hi - lo + 1) |-> lo + (k - 1)], LAMBDA t : t \in S)

---------------------------------------------------------------------------
(* class Forecast *)

\* str(uuid.uuid4()): a key no earlier call returned.
uuid4(n) == <<"uuid", n>>

\* Forecast.__init__ (lines 54-60); raises IndexError when EventRecords is empty.
Forecast(e, eo, ed, n) ==
    [event_id |-> e,
     event_orders |-> eo,
     event_name |-> EventRecords(ed, e)[1].name,
     img_key |-> uuid4(n)]

\* (the first record of the table, whatever its event)
max_total_gross_unfiltered(ed, e) == ed[1].max_total_gross

\* lines 64-66: the max_total_gross of the first record of the event.
max_total_gross(ed, e) == EventRecords(ed, e)[1].max_total_gross

\* lines 67-69: self.event_orders["total_gross_cumsum"] = ...cumsum()
with_total_gross_cumsum(eo) ==
    SetColumn(eo, "total_gross_cumsum", cumsum(Column(eo, "total_gross")))

\* (the row's own gross amount instead of the running sum)
get_percentage_total_gross_max_total_gross(eo, ed, e) ==
    [k \in DOMAIN eo |-> Quot(eo[k].total_gross, max_total_gross(ed, e))]

\* line 71: the series returned, over event_orders holding total_gross_cumsum.
get_percentage_total_gross_cumsum_max_total_gross(eo, ed, e) ==
    [k \in DOMAIN eo |-> Quot(eo[k].total_gross_cumsum, max_total_gross(ed, e))]

\* Timedelta.days: whole days, rounded towards minus infinity.
days(td) == td \div UnitsPerDay

\* (the operands of the subtraction exchanged)
days_since_event_to_last_order(eo, ed, e) ==
    days(eo[Len(eo)].ds - EventRecords(ed, e)[1].start_date)

\* Forecast.days_to_event_since_last_order (lines 73-82)
days_to_event_since_last_order(eo, ed, e) ==
    LET event_start_date == EventRecords(ed, e)[1].start_date
        last_order_date == eo[Len(eo)].ds
    IN  days(event_start_date - last_order_date)

\* lines 105-110: the y and cap columns of self.event_orders.
with_features(eo, ed, e) ==
    LET c == with_total_gross_cumsum(eo)
        y == SetColumn(c, "y", get_percentage_total_gross_cumsum_max_total_gross(c, ed, e))
    IN  SetColumn(y, "cap", [k \in DOMAIN y |-> MAX_CAP])

\* Prophet.fit (line 114): the rows with a NaN y are dropped; an infinite y,
\* or fewer than two rows left, raises ValueError.
NotNull(df) == SelectSeq(df, LAMBDA r : ~IsNaN(r.y))

FitRaises(df) == {k \in DOMAIN df : IsInf(df[k].y)} # {} \/ Len(NotNull(df)) < 2

\* Prophet.history_dates after fit: the dates fitted, distinct and ascending.
history_dates(df) == SortedUnique(Column(NotNull(df), "ds"))

\* Prophet.make_future_dataframe (line 118): the history dates followed by
\* `periods` daily dates after the last one.
make_future_dataframe(hd, periods) ==
    IF periods <= 0 THEN hd
    ELSE hd \o [k \in 1..periods |-> hd[Len(hd)] + k * UnitsPerDay]

\* pd.date_range(periods = periods + 1) inside make_future_dataframe refuses
\* a negative number of periods in some pandas versions.
FuturePeriodsRefused(periods) == periods + 1 < 0

\* Prophet.predict (line 124): one row per date of the future frame; the
\* predicted values are left uninterpreted.
predict(future) ==
    [k \in DOMAIN future |->
        [ds |-> future[k], yhat |-> <<"yhat", future[k]>>,
         yhat_lower |-> <<"yhat_lower", future[k]>>,
         yhat_upper |-> <<"yhat_upper", future[k]>>]]

\* The object put by upload_figures_to_s3 (lines 85-101).
image_name(img_key) == <<img_key, ".png">>

Figure(f) == [name |-> image_name(f.img_key), xlabel |-> f.event_name, plotted |-> f.event_id]

PutObject(b, o) == {x \in b : x.name # o.name} \cup {o}

\* (head(1) instead of tail(1))
head1(df) == IF df = <<>> THEN <<>> ELSE <<df[1]>>

\* Forecast.new_row (lines 131-137): the last row of the forecast.
tail1(df) == IF df = <<>> THEN <<>> ELSE <<df[Len(df)]>>

new_row(f, fd) ==
    [k \in DOMAIN tail1(fd) |->
        [event_id |-> f.event_id, ds |-> tail1(fd)[k].ds, yhat |-> tail1(fd)[k].yhat,
         yhat_lower |-> tail1(fd)[k].yhat_lower, yhat_upper |-> tail1(fd)[k].yhat_upper,
         img_key |-> f.img_key]]

---------------------------------------------------------------------------
(* Control *)

\* (the exception is caught and the step is tried again)
RaiseCaught(e) == exc' = e /\ UNCHANGED pc

\* No handler catches anything: a raised exception leaves the invocation.
Raise(e) == exc' = e /\ pc' = "aborted"

\* (one row fewer is enough)
under_threshold_minus_one(eo) == Len(eo) < THRESHOLD_ORDERS - 1

\* (one row more is needed)
under_or_at_threshold(eo) == Len(eo) <= THRESHOLD_ORDERS

\* line 154
under_threshold(eo) == Len(eo) < THRESHOLD_ORDERS

this == self[1]

event_id == list_of_event_ids[it]
event_orders == FilterByEvent(order_data, event_id)

---------------------------------------------------------------------------
(* make_event_forecasts (lines 140-162) *)

\* lines 141-144
make_event_forecasts ==
    /\ pc = "make_event_forecasts"
    /\ data_for_csv' = <<>>
    /\ list_of_event_ids' = unique(Column(order_data, "event_id"))
    /\ it' = 1
    /\ pc' = "for"
    /\ UNCHANGED <<order_data, event_data, bucket, csv, exc, run, ret, s3_calls,
                   self, forecast_data, days_to_event, nextKey>>

\* lines 149-155: an event under the threshold is skipped.
loop_continue ==
    /\ pc = "for"
    /\ it <= Len(list_of_event_ids)
    /\ under_threshold(event_orders)
    /\ it' = it + 1
    /\ UNCHANGED <<order_data, event_data, bucket, csv, pc, exc, run, ret, s3_calls,
                   list_of_event_ids, data_for_csv, self, forecast_data,
                   days_to_event, nextKey>>

\* lines 149-157: the Forecast object of a qualifying event.
loop_Forecast ==
    /\ pc = "for"
    /\ it <= Len(list_of_event_ids)
    /\ ~under_threshold(event_orders)
    /\ EventRecords(event_data, event_id) # <<>>
    /\ self' = Some(Forecast(event_id, event_orders, event_data, nextKey))
    /\ nextKey' = nextKey + 1
    /\ pc' = "get_forecast"
    /\ UNCHANGED <<order_data, event_data, bucket, csv, exc, run, ret, s3_calls,
                   list_of_event_ids, it, data_for_csv, forecast_data, days_to_event>>

\* lines 57-59: .values[0] of no record raises IndexError.
loop_Forecast_raises ==
    /\ pc = "for"
    /\ it <= Len(list_of_event_ids)
    /\ ~under_threshold(event_orders)
    /\ EventRecords(event_data, event_id) = <<>>
    /\ Raise("IndexError")
    /\ UNCHANGED <<order_data, event_data, bucket, csv, run, ret, s3_calls,
                   list_of_event_ids, it, data_for_csv, self, forecast_data,
                   days_to_event, nextKey>>

\* (the cap column is written to the module-level order table as well)
get_forecast_writes_order_data ==
    /\ pc = "get_forecast"
    /\ self' = Some([this EXCEPT
                   !.event_orders = with_features(this.event_orders, event_data, this.event_id)])
    /\ order_data' = SetColumn(order_data, "cap", [k \in DOMAIN order_data |-> MAX_CAP])
    /\ pc' = "fit"
    /\ UNCHANGED <<event_data, bucket, csv, exc, run, ret, s3_calls,
                   list_of_event_ids, it, data_for_csv, forecast_data,
                   days_to_event, nextKey>>

\* lines 105-110: the feature columns are written to self.event_orders.
get_forecast ==
    /\ pc = "get_forecast"
    /\ self' = Some([this EXCEPT
                   !.event_orders = with_features(this.event_orders, event_data, this.event_id)])
    /\ pc' = "fit"
    /\ UNCHANGED <<order_data, event_data, bucket, csv, exc, run, ret, s3_calls,
                   list_of_event_ids, it, data_for_csv, forecast_data,
                   days_to_event, nextKey>>

\* lines 113-124: fit, horizon, future frame, prediction.
fit_predict ==
    /\ pc = "fit"
    /\ ~FitRaises(this.event_orders)
    /\ LET d == days_to_event_since_last_order(this.event_orders, event_data, this.event_id)
       IN  /\ days_to_event' = Some(d)
           /\ forecast_data' =
                  predict(make_future_dataframe(history_dates(this.event_orders), d))
    /\ pc' = "upload_figures_to_s3"
    /\ UNCHANGED <<order_data, event_data, bucket, csv, exc, run, ret, s3_calls,
                   list_of_event_ids, it, data_for_csv, self, nextKey>>

\* line 114: Prophet.fit raises ValueError.
fit_raises ==
    /\ pc = "fit"
    /\ FitRaises(this.event_orders)
    /\ Raise("ValueError")
    /\ UNCHANGED <<order_data, event_data, bucket, csv, run, ret, s3_calls,
                   list_of_event_ids, it, data_for_csv, self, forecast_data,
                   days_to_event, nextKey>>

\* line 118: make_future_dataframe raises ValueError.
make_future_dataframe_raises ==
    /\ pc = "fit"
    /\ ~FitRaises(this.event_orders)
    /\ LET d == days_to_event_since_last_order(this.event_orders, event_data, this.event_id)
       IN  /\ FuturePeriodsRefused(d)
           /\ days_to_event' = Some(d)
    /\ Raise("ValueError")
    /\ UNCHANGED <<order_data, event_data, bucket, csv, run, ret, s3_calls,
                   list_of_event_ids, it, data_for_csv, self, forecast_data, nextKey>>

\* lines 84-101, called at line 127; get_forecast returns and its local
\* days_to_event is gone.
upload_figures_to_s3 ==
    /\ pc = "upload_figures_to_s3"
    /\ bucket' = PutObject(bucket, Figure(this))
    /\ s3_calls' = Append(s3_calls, "upload_fileobj")
    /\ pc' = "new_row"
    /\ days_to_event' = None
    /\ UNCHANGED <<order_data, event_data, csv, exc, run, ret, list_of_event_ids,
                   it, data_for_csv, self, forecast_data, nextKey>>

\* line 96: the upload fails; nothing is stored.
upload_figures_to_s3_raises ==
    /\ pc = "upload_figures_to_s3"
    /\ Raise("S3UploadFailedError")
    /\ UNCHANGED <<order_data, event_data, bucket, csv, run, ret, s3_calls,
                   list_of_event_ids, it, data_for_csv, self, forecast_data,
                   days_to_event, nextKey>>

\* lines 159-160
append_new_row ==
    /\ pc = "new_row"
    /\ data_for_csv' = data_for_csv \o new_row(this, forecast_data)
    /\ it' = it + 1
    /\ pc' = "for"
    /\ UNCHANGED <<order_data, event_data, bucket, csv, exc, run, ret, s3_calls,
                   list_of_event_ids, self, forecast_data, days_to_event, nextKey>>

\* line 162: the locals other than the returned table are gone.
return_data_for_csv ==
    /\ pc = "for"
    /\ it > Len(list_of_event_ids)
    /\ pc' = "made"
    /\ list_of_event_ids' = None
    /\ it' = 0
    /\ self' = None
    /\ forecast_data' = None
    /\ UNCHANGED <<order_data, event_data, bucket, csv, exc, run, ret, s3_calls,
                   data_for_csv, days_to_event, nextKey>>

NextForecasts ==
    \/ make_event_forecasts
    \/ loop_continue
    \/ loop_Forecast
    \/ loop_Forecast_raises
    \/ get_forecast
    \/ fit_predict
    \/ fit_raises
    \/ make_future_dataframe_raises
    \/ upload_figures_to_s3
    \/ upload_figures_to_s3_raises
    \/ append_new_row
    \/ return_data_for_csv

\* A call of make_event_forecasts on the loaded tables.
InitForecasts ==
    /\ LoadedTables(order_data, event_data)
    /\ bucket = {}
    /\ csv = None
    /\ pc = "make_event_forecasts"
    /\ exc = NoExc
    /\ run = 1
    /\ ret = None
    /\ s3_calls = <<>>
    /\ list_of_event_ids = None
    /\ it = 0
    /\ data_for_csv = None
    /\ self = None
    /\ forecast_data = None
    /\ days_to_event = None
    /\ nextKey = 1

SpecForecasts == InitForecasts /\ [][NextForecasts]_vars

---------------------------------------------------------------------------
(* lambda_handler (lines 179-183) and the S3 operations it calls *)

\* The Lambda runtime calls lambda_handler; an earlier invocation has ended.
lambda_handler ==
    /\ pc \in {"idle", "done", "aborted"}
    /\ run < MaxRuns
    /\ run' = run + 1
    /\ pc' = "clean_bucket_with_figures"
    /\ exc' = NoExc
    /\ ret' = None
    /\ s3_calls' = <<>>
    /\ list_of_event_ids' = None
    /\ it' = 0
    /\ data_for_csv' = None
    /\ self' = None
    /\ forecast_data' = None
    /\ days_to_event' = None
    /\ UNCHANGED <<order_data, event_data, bucket, csv, nextKey>>

\* (nothing is deleted)
clean_bucket_with_figures_keeps ==
    /\ pc = "clean_bucket_with_figures"
    /\ s3_calls' = Append(s3_calls, "delete")
    /\ pc' = "make_event_forecasts"
    /\ UNCHANGED <<order_data, event_data, bucket, csv, exc, run, ret, list_of_event_ids,
                   it, data_for_csv, self, forecast_data, days_to_event, nextKey>>

\* lines 165-168, called at line 180
clean_bucket_with_figures ==
    /\ pc = "clean_bucket_with_figures"
    /\ bucket' = {}
    /\ s3_calls' = Append(s3_calls, "delete")
    /\ pc' = "make_event_forecasts"
    /\ UNCHANGED <<order_data, event_data, csv, exc, run, ret, list_of_event_ids,
                   it, data_for_csv, self, forecast_data, days_to_event, nextKey>>

\* line 168: the deletion fails, having deleted some of the objects.
clean_bucket_with_figures_raises ==
    /\ pc = "clean_bucket_with_figures"
    /\ \E left \in SUBSET bucket : bucket' = left
    /\ Raise("ClientError")
    /\ UNCHANGED <<order_data, event_data, csv, run, ret, s3_calls,
                   list_of_event_ids, it, data_for_csv, self, forecast_data,
                   days_to_event, nextKey>>

\* lines 171-176, called at line 182
upload_to_s3 ==
    /\ pc = "made"
    /\ csv' = Some(data_for_csv)
    /\ s3_calls' = Append(s3_calls, "to_csv")
    /\ pc' = "return"
    /\ UNCHANGED <<order_data, event_data, bucket, exc, run, ret, list_of_event_ids,
                   it, data_for_csv, self, forecast_data, days_to_event, nextKey>>

\* line 175: the write fails; the stored object is the one before.
upload_to_s3_raises ==
    /\ pc = "made"
    /\ Raise("OSError")
    /\ UNCHANGED <<order_data, event_data, bucket, csv, run, ret, s3_calls,
                   list_of_event_ids, it, data_for_csv, self, forecast_data,
                   days_to_event, nextKey>>

\* line 183
return_message ==
    /\ pc = "return"
    /\ ret' = Some([message |-> "Forecast uploaded"])
    /\ pc' = "done"
    /\ UNCHANGED <<order_data, event_data, bucket, csv, exc, run, s3_calls,
                   list_of_event_ids, it, data_for_csv, self, forecast_data,
                   days_to_event, nextKey>>

Next ==
    \/ lambda_handler
    \/ clean_bucket_with_figures
    \/ clean_bucket_with_figures_raises
    \/ NextForecasts
    \/ upload_to_s3
    \/ upload_to_s3_raises
    \/ return_message

\* The module is loaded and no invocation has happened.
Init ==
    /\ InvocationTables(order_data, event_data)
    /\ bucket = {}
    /\ csv = None
    /\ pc = "idle"
    /\ exc = NoExc
    /\ run = 0
    /\ ret = None
    /\ s3_calls = <<>>
    /\ list_of_event_ids = None
    /\ it = 0
    /\ data_for_csv = None
    /\ self = None
    /\ forecast_data = None
    /\ days_to_event = None
    /\ nextKey = 1

Spec == Init /\ [][Next]_vars

---------------------------------------------------------------------------
(* The properties.  What they say of the tables is read from the tables    *)
(* themselves, not through the operators of the program above.             *)

OrderedEvents == {order_data[k].event_id : k \in DOMAIN order_data}

OrderCount(e) == Cardinality({k \in DOMAIN order_data : order_data[k].event_id = e})

Qualifying == {e \in OrderedEvents : OrderCount(e) >= THRESHOLD_ORDERS}

RecordOf(e) == CHOOSE r \in Range(event_data) : r.event_id = e

Rows == data_for_csv

\* The feature columns of the current Forecast object have been written.
HasFeatures == self # None /\ pc # "get_forecast"

Ratio == [k \in DOMAIN this.event_orders |-> this.event_orders[k].y]

Gross == [k \in DOMAIN this.event_orders |-> this.event_orders[k].total_gross]

NonDecreasing(y) == \A k \in 1..(Len(y) - 1) : Leq(y[k], y[k + 1])

NonNegativeGross == \A k \in DOMAIN Gross : Gross[k] >= 0

RECURSIVE SumAllFrom(_, _, _)
SumAllFrom(s, lo, hi) ==
    IF lo > hi THEN 0
    ELSE IF lo = hi THEN s[lo]
    ELSE SumAllFrom(s, lo, (lo + hi) \div 2) + SumAllFrom(s, (lo + hi) \div 2 + 1, hi)

SumAll(s) == SumAllFrom(s, 1, Len(s))

PositiveMax == RecordOf(this.event_id).max_total_gross > 0

TotalGross == SumAll(Gross)

\* Non-negative gross amounts that add up to at most a positive max_total_gross.
WellFormed ==
    /\ NonNegativeGross
    /\ PositiveMax
    /\ TotalGross <= RecordOf(this.event_id).max_total_gross

\* C1: no row of the result table is of an event with fewer than
\* THRESHOLD_ORDERS order rows.
C1_NoRowUnderThreshold ==
    \A k \in DOMAIN Rows : OrderCount(Rows[k].event_id) >= THRESHOLD_ORDERS

C1_Witness ==
    /\ pc = "made"
    /\ Len(data_for_csv) = 1
    /\ \E e \in OrderedEvents : OrderCount(e) = THRESHOLD_ORDERS - 1

\* C2: when make_event_forecasts has returned, the result table holds one
\* row for each qualifying event and no other row.
C2_OneRowPerQualifyingEvent ==
    pc = "made" =>
        /\ Len(data_for_csv) = Cardinality(Qualifying)
        /\ \A e \in Qualifying :
              Cardinality({k \in DOMAIN data_for_csv : data_for_csv[k].event_id = e}) = 1

C2_Witness ==
    /\ pc = "made"
    /\ Len(data_for_csv) = 2
    /\ \E e \in Qualifying : OrderCount(e) = THRESHOLD_ORDERS

\* C3 as claimed: the ratio feature of every event is non-decreasing along
\* the event's order rows.
C3_RatioNonDecreasing == HasFeatures => NonDecreasing(Ratio)

\* C3 as amended: the ratio feature is non-decreasing along the order rows of
\* an event whose gross amounts are non-negative and whose max_total_gross is
\* positive.
C3_RatioNonDecreasingOfNonNegativeGross ==
    (HasFeatures /\ NonNegativeGross /\ PositiveMax) => NonDecreasing(Ratio)

C3_Witness ==
    /\ HasFeatures
    /\ NonNegativeGross
    /\ PositiveMax
    /\ Ratio[1].num = 0
    /\ Ratio[Len(Ratio)].num > 0

\* C4: for non-negative gross amounts adding up to at most a positive
\* max_total_gross, every value of the ratio feature lies in [0, 1].
C4_RatioInUnitInterval ==
    (HasFeatures /\ WellFormed) =>
        \A k \in DOMAIN Ratio : Leq(Quot(0, 1), Ratio[k]) /\ Leq(Ratio[k], Quot(1, 1))

C4_Witness ==
    /\ HasFeatures
    /\ WellFormed
    /\ Ratio[Len(Ratio)].num = Ratio[Len(Ratio)].den
    /\ this.event_id # event_data[1].event_id

\* C5: the horizon is non-negative when the event's start date is not before
\* the date of the event's last order row.
C5_HorizonNonNegative ==
    (days_to_event # None /\
     RecordOf(this.event_id).start_date >= this.event_orders[Len(this.event_orders)].ds)
        => days_to_event[1] >= 0

C5_Witness ==
    /\ days_to_event # None
    /\ RecordOf(this.event_id).start_date > this.event_orders[Len(this.event_orders)].ds
    /\ days_to_event[1] = 0

\* C6: in an invocation the deletion is the first S3 write, the summary is
\* the last, written once all qualifying events have their chart; when the
\* invocation has returned its message the bucket holds the charts of the
\* result rows of this invocation, one per qualifying event, and nothing else.
C6_DeleteThenChartsThenSummary ==
    /\ \A k \in DOMAIN s3_calls : (s3_calls[k] = "delete") <=> (k = 1)
    /\ \A k \in DOMAIN s3_calls :
          s3_calls[k] = "to_csv" =>
              k = Len(s3_calls) /\ k = Cardinality(Qualifying) + 2
    /\ pc = "done" =>
          /\ ret = Some([message |-> "Forecast uploaded"])
          /\ s3_calls[Len(s3_calls)] = "to_csv"
          /\ {o.name : o \in bucket} = {<<Rows[k].img_key, ".png">> : k \in DOMAIN Rows}
          /\ Cardinality(bucket) = Cardinality(Qualifying)

C6_Witness ==
    /\ pc = "done"
    /\ run = 2
    /\ nextKey = 5
    /\ Cardinality(bucket) = 2

\* C7: a raised exception ends the invocation: it has written no summary and
\* returned no message, and nothing happens until the next invocation.
C7_FailureAbortsRun ==
    /\ [](exc # NoExc =>
            /\ pc = "aborted"
            /\ ret = None
            /\ \A k \in DOMAIN s3_calls : s3_calls[k] # "to_csv")
    /\ [][exc # NoExc =>
            /\ pc' = "clean_bucket_with_figures"
            /\ run' = run + 1
            /\ exc' = NoExc]_vars

C7_Witness ==
    /\ exc = "IndexError"
    /\ pc = "aborted"
    /\ it = 1
    /\ Len(list_of_event_ids) = 2
    /\ OrderCount(list_of_event_ids[2]) >= THRESHOLD_ORDERS

\* C8: the row appended for an event is the last row of its forecast with the
\* event's id and chart key; every row's chart is in the bucket under the
\* row's key followed by ".png" and is the chart of the row's event; the keys
\* of the rows differ.
C8_RowOfOwnEventAndChart ==
    /\ (pc = "for" /\ self # None) =>
          /\ Rows # <<>>
          /\ Rows[Len(Rows)] =
                [event_id |-> this.event_id,
                 ds |-> forecast_data[Len(forecast_data)].ds,
                 yhat |-> forecast_data[Len(forecast_data)].yhat,
                 yhat_lower |-> forecast_data[Len(forecast_data)].yhat_lower,
                 yhat_upper |-> forecast_data[Len(forecast_data)].yhat_upper,
                 img_key |-> this.img_key]
    /\ \A k \in DOMAIN Rows :
          \E o \in bucket :
              o.name = <<Rows[k].img_key, ".png">> /\ o.plotted = Rows[k].event_id
    /\ \A j, k \in DOMAIN Rows : j # k => Rows[j].img_key # Rows[k].img_key

C8_Witness ==
    /\ pc = "for"
    /\ self # None
    /\ Len(Rows) = 2
    /\ Len(forecast_data) > 1
    /\ run = 2

\* C9: no step changes order_data or event_data, and the features written
\* for an event are those of its rows in order_data and its record in
\* event_data.
C9_LoadedTablesUnchanged ==
    /\ [][order_data' = order_data /\ event_data' = event_data]_vars
    /\ [](pc = "fit" =>
            LET rows == SelectSeq(order_data, LAMBDA r : r.event_id = this.event_id)
                gross == [k \in DOMAIN rows |-> rows[k].total_gross]
            IN  /\ Len(this.event_orders) = Len(rows)
                /\ \A k \in DOMAIN this.event_orders :
                      this.event_orders[k].y =
                          Quot(SumAllFrom(gross, 1, k),
                               RecordOf(this.event_id).max_total_gross))

C9_Witness ==
    /\ pc = "fit"
    /\ run = 2
    /\ it = 2
    /\ Len(Rows) = 1

\* C10 as claimed: between invocations every chart key of the stored
\* summary names an object of the image bucket.
C10_SummaryChartsPresent ==
    (pc \in {"idle", "done", "aborted"} /\ csv # None) =>
        \A k \in DOMAIN csv[1] : \E o \in bucket : o.name = <<csv[1][k].img_key, ".png">>

============================================================================
